---- MODULE Spec2Model ----
(***************************************************************************)
(* Sierpinski carpet animation: the carpet rasteriser                      *)
(* (create_sierpinski_carpet), the per-frame dissolve (animate), the save  *)
(* of the animation (create_sierpinski_animation) and the GUI worker that  *)
(* calls it (AnimationWorker.run).                                         *)
(*                                                                         *)
(* A carpet is a function from the cells (i, j), 0 <= i, j < size, to      *)
(* {0, 1}: 1 = filled, 0 = empty, as in the numpy array of the source.     *)
(***************************************************************************)
EXTENDS Integers, Sequences, FiniteSets

\* Bounds of the animation specification Spec.
MaxSize == 4
MaxOrder == 2
MaxFramesPerOrder == 3
\* Bounds of the carpet-generation specification SpecCarpet.
MaxCarpetSize == 10
MaxCarpetOrder == 3

VARIABLES
    size,             \* parameter: side of the grid
    max_order,        \* parameter: deepest order
    frames_per_order, \* parameter: frames per order
    as_mp4,           \* parameter, cleared by the MP4 -> GIF fallback
    pc,               \* position in create_sierpinski_animation / the worker
    carpets,          \* the precomputed series, carpets[o + 1] is order o
    frame,            \* next frame index FuncAnimation hands to animate
    produced,         \* frame indices animate was called with in this save
    random_mask,      \* mask drawn for the last frame ({} when none is drawn)
    carpet_frame,     \* last frame produced by animate
    reverted,         \* history: a changing cell empty in the frame before
                      \* the last one, in the same window, is filled in the
                      \* last one
    save_error,       \* save_error is not None
    saved,            \* file the encoder wrote: "none", "mp4" or "gif"
    phase,            \* last text given to phase_callback
    report,           \* final message printed: "none", "completed", "failed"
    finished_signal,  \* AnimationWorker.finished_signal was emitted
    error_signal      \* AnimationWorker.error_signal was emitted

vars == <<size, max_order, frames_per_order, as_mp4, pc, carpets, frame,
          produced, random_mask, carpet_frame, reverted, save_error, saved,
          phase, report, finished_signal, error_signal>>

Min(a, b) == IF a < b THEN a ELSE b

\* The cells of a size x size grid: np.ones((size, size)).
Cells(n) == (0 .. n - 1) \X (0 .. n - 1)

NoFrame == <<>>

(***************************************************************************)
(* create_sierpinski_carpet                                                *)
(***************************************************************************)

\* Mutant: the coordinates are halved, not divided by 3.
RECURSIVE InHoleHalved(_, _, _)
InHoleHalved(x, y, n) ==
    IF n = 0 THEN FALSE
    ELSE IF (x % 3 = 1) /\ (y % 3 = 1) THEN TRUE
    ELSE InHoleHalved(x \div 2, y \div 2, n - 1)

\* Mutant: the coordinates are never divided, every level tests level 1.
RECURSIVE InHoleNoDivide(_, _, _)
InHoleNoDivide(x, y, n) ==
    IF n = 0 THEN FALSE
    ELSE IF (x % 3 = 1) /\ (y % 3 = 1) THEN TRUE
    ELSE InHoleNoDivide(x, y, n - 1)

\* Mutant: only the deepest level is tested (divide first, test after the
\* loop), so a hole of a shallower level closes again.
RECURSIVE InHoleLastLevel(_, _, _)
InHoleLastLevel(x, y, n) ==
    IF n = 0 THEN FALSE
    ELSE IF n = 1 THEN (x % 3 = 1) /\ (y % 3 = 1)
    ELSE InHoleLastLevel(x \div 3, y \div 3, n - 1)

\* The inner loop `for _ in range(order)` on the coordinates (x, y) with n
\* iterations left: TRUE iff the loop reaches `carpet[i, j] = 0`.
RECURSIVE InHole(_, _, _)
InHole(x, y, n) ==
    IF n = 0 THEN FALSE
    ELSE IF (x % 3 = 1) /\ (y % 3 = 1) THEN TRUE
    ELSE InHole(x \div 3, y \div 3, n - 1)

\* create_sierpinski_carpet(order, size): all ones for order 0, else 0 at
\* the cells the inner loop marks.
create_sierpinski_carpet(order, n) ==
    IF order = 0
    THEN [c \in Cells(n) |-> 1]
    ELSE [c \in Cells(n) |-> IF InHole(c[1], c[2], order) THEN 0 ELSE 1]

(***************************************************************************)
(* create_sierpinski_animation: parameters and carpet precomputation       *)
(***************************************************************************)

InitWith(sizes, orders, fpos, formats) ==
    /\ size \in sizes
    /\ max_order \in orders
    /\ frames_per_order \in fpos
    /\ as_mp4 \in formats
    /\ pc = "generate"
    /\ carpets = <<>>
    /\ frame = 0
    /\ produced = <<>>
    /\ random_mask = {}
    /\ carpet_frame = NoFrame
    /\ reverted = FALSE
    /\ save_error = FALSE
    /\ saved = "none"
    /\ phase = "Generating carpets..."
    /\ report = "none"
    /\ finished_signal = FALSE
    /\ error_signal = FALSE

Init == InitWith(1 .. MaxSize, 0 .. MaxOrder, 1 .. MaxFramesPerOrder, BOOLEAN)

InitCarpet == InitWith(1 .. MaxCarpetSize, 0 .. MaxCarpetOrder, {1}, {TRUE})

\* One iteration of `for order in range(max_order + 1)`; the carpet is also
\* what preview_callback receives.
GenerateCarpet ==
    /\ pc = "generate"
    /\ Len(carpets) < max_order + 1
    /\ carpets' = Append(carpets, create_sierpinski_carpet(Len(carpets), size))
    /\ UNCHANGED <<size, max_order, frames_per_order, as_mp4, pc, frame,
                   produced, random_mask, carpet_frame, reverted,
                   save_error, saved, phase, report, finished_signal,
                   error_signal>>

NextCarpet == GenerateCarpet

SpecCarpet == InitCarpet /\ [][NextCarpet]_vars

\* carpets[order] of the source (Python lists are 0-based).
Carpet(o) == carpets[o + 1]

\* Mutant: the trailing `+ frames_per_order` is forgotten.
TotalFramesShort == max_order * frames_per_order

\* total_frames
TotalFrames == max_order * frames_per_order + frames_per_order

\* Carpet generation is over: phase "Creating animation frames...", the
\* FuncAnimation is built, phase "Saving animation...", and the save chosen
\* by as_mp4 begins.
StartSave ==
    /\ pc = "generate"
    /\ Len(carpets) = max_order + 1
    /\ phase' = "Saving animation..."
    /\ pc' = IF as_mp4 THEN "save_mp4" ELSE "save_gif"
    /\ UNCHANGED <<size, max_order, frames_per_order, as_mp4, carpets, frame,
                   produced, random_mask, carpet_frame, reverted,
                   save_error, saved, report, finished_signal, error_signal>>

(***************************************************************************)
(* animate(frame)                                                          *)
(***************************************************************************)

\* Mutant: the clamp is off by one (max_order - 1).
CurrentOrderClampLow(f) ==
    IF max_order = 0 THEN 0
    ELSE Min(f \div frames_per_order, max_order - 1)

\* current_order
CurrentOrder(f) == Min(f \div frames_per_order, max_order)

\* next_order
NextOrder(f) == Min(CurrentOrder(f) + 1, max_order)

\* Mutant: the blend factor of the following frame.
BlendNumNext(f) == (f + 1) % frames_per_order

\* blend_factor = (frame % frames_per_order) / frames_per_order, kept as its
\* numerator: frames_per_order >= 1, so blend_factor > 0 iff BlendNum > 0,
\* and blend_factor < 1 always.
BlendNum(f) == f % frames_per_order

\* changing_pixels = current_carpet != next_carpet
ChangingPixels(f) ==
    {c \in Cells(size) : Carpet(CurrentOrder(f))[c] # Carpet(NextOrder(f))[c]}

\* random_mask = np.random.random(size=(size, size)) < blend_factor, drawn
\* only when current_order < max_order and blend_factor > 0.  With
\* 0 < blend_factor < 1 every cell can come out either way.  The mask is
\* read only through `changing_pixels & random_mask`, so it is enumerated
\* as every subset of the changing cells, joined with either none or all of
\* the other cells.  When no mask is drawn the mask is {}.
RandomMasks(f) ==
    IF CurrentOrder(f) # max_order /\ BlendNum(f) > 0
    THEN LET changing_pixels == ChangingPixels(f)
         IN  {m \cup rest : m \in SUBSET changing_pixels,
                             rest \in {{}, Cells(size) \ changing_pixels}}
    ELSE {{}}

\* The frame of the dissolve branch: current_carpet.copy() with
\* next_carpet's value at pixels_to_change = changing_pixels & random_mask.
Dissolve(f, mask) ==
    LET current_carpet == Carpet(CurrentOrder(f))
        next_carpet == Carpet(NextOrder(f))
    IN  IF BlendNum(f) > 0
        THEN [c \in Cells(size) |->
                IF current_carpet[c] # next_carpet[c] /\ c \in mask
                THEN next_carpet[c]
                ELSE current_carpet[c]]
        ELSE current_carpet

\* Mutant: pixels_to_change = changing_pixels | random_mask.
CarpetFrameOr(f, mask) ==
    IF CurrentOrder(f) = max_order
    THEN Carpet(CurrentOrder(f))
    ELSE LET current_carpet == Carpet(CurrentOrder(f))
             next_carpet == Carpet(NextOrder(f))
         IN  [c \in Cells(size) |->
                IF BlendNum(f) > 0
                   /\ (current_carpet[c] # next_carpet[c] \/ c \in mask)
                THEN next_carpet[c]
                ELSE current_carpet[c]]

\* Mutant: a cumulative dissolve, the frame is built on the running frame
\* buffer, so a cell emptied earlier in the window stays empty.
CarpetFrameSticky(f, mask) ==
    IF CurrentOrder(f) = max_order
    THEN Carpet(CurrentOrder(f))
    ELSE IF f > 0 /\ CurrentOrder(f - 1) = CurrentOrder(f)
    THEN [c \in Cells(size) |->
            IF carpet_frame[c] = 0 THEN 0 ELSE Dissolve(f, mask)[c]]
    ELSE Dissolve(f, mask)

\* carpet_frame as animate computes it.
CarpetFrame(f, mask) ==
    IF CurrentOrder(f) = max_order
    THEN Carpet(CurrentOrder(f))
    ELSE Dissolve(f, mask)

\* Mutant: the frame is written into current_carpet itself (no .copy()).
CarpetsNoCopy(f, mask) ==
    [carpets EXCEPT ![CurrentOrder(f) + 1] = CarpetFrame(f, mask)]

\* The series after animate(f): the frame is a copy (or, at max_order, an
\* alias that is only read), so the series is as it was.
CarpetsAfterFrame(f, mask) == carpets

\* FuncAnimation(frames=total_frames) calls animate with 0, 1, ...,
\* total_frames - 1 in turn while a save is running.
Animate ==
    /\ pc \in {"save_mp4", "save_gif"}
    /\ frame < TotalFrames
    /\ \E mask \in RandomMasks(frame) :
        /\ random_mask' = mask
        /\ carpet_frame' = CarpetFrame(frame, mask)
        /\ carpets' = CarpetsAfterFrame(frame, mask)
    /\ reverted' = /\ frame > 0
                   /\ CurrentOrder(frame - 1) = CurrentOrder(frame)
                   /\ \E c \in ChangingPixels(frame) :
                        carpet_frame[c] = 0 /\ carpet_frame'[c] = 1
    /\ produced' = Append(produced, frame)
    /\ frame' = frame + 1
    /\ UNCHANGED <<size, max_order, frames_per_order, as_mp4, pc, save_error,
                   saved, phase, report, finished_signal, error_signal>>

(***************************************************************************)
(* Saving: MP4, the GIF fallback, and the end of the function              *)
(***************************************************************************)

\* anim.save(filename, writer=writer) returns: every frame was written.
SaveMp4Ok ==
    /\ pc = "save_mp4"
    /\ frame = TotalFrames
    /\ saved' = "mp4"
    /\ pc' = "finish"
    /\ UNCHANGED <<size, max_order, frames_per_order, as_mp4, carpets, frame,
                   produced, random_mask, carpet_frame, reverted,
                   save_error, phase, report, finished_signal, error_signal>>

\* The MP4 save raises (no ffmpeg writer, or the encoder fails at any
\* frame): as_mp4 = False, save_error = e, and the GIF save starts over
\* from frame 0.
SaveMp4Fail ==
    /\ pc = "save_mp4"
    /\ as_mp4' = FALSE
    /\ save_error' = TRUE
    /\ pc' = "save_gif"
    /\ frame' = 0
    /\ produced' = <<>>
    /\ random_mask' = {}
    /\ carpet_frame' = NoFrame
    /\ reverted' = FALSE
    /\ UNCHANGED <<size, max_order, frames_per_order, carpets, saved, phase,
                   report, finished_signal, error_signal>>

\* anim.save(filename, writer="pillow") returns; save_error keeps whatever
\* the MP4 attempt left in it.
SaveGifOk ==
    /\ pc = "save_gif"
    /\ frame = TotalFrames
    /\ saved' = "gif"
    /\ pc' = "finish"
    /\ UNCHANGED <<size, max_order, frames_per_order, as_mp4, carpets, frame,
                   produced, random_mask, carpet_frame, reverted,
                   save_error, phase, report, finished_signal, error_signal>>

\* The GIF save raises: save_error = e.
SaveGifFail ==
    /\ pc = "save_gif"
    /\ save_error' = TRUE
    /\ pc' = "finish"
    /\ UNCHANGED <<size, max_order, frames_per_order, as_mp4, carpets, frame,
                   produced, random_mask, carpet_frame, reverted, saved,
                   phase, report, finished_signal, error_signal>>

\* plt.close, progress 100, phase "Done", the final message, and the
\* function returns normally.
Finish ==
    /\ pc = "finish"
    /\ phase' = "Done"
    /\ report' = IF save_error THEN "failed" ELSE "completed"
    /\ pc' = "returned"
    /\ UNCHANGED <<size, max_order, frames_per_order, as_mp4, carpets, frame,
                   produced, random_mask, carpet_frame, reverted,
                   save_error, saved, finished_signal, error_signal>>

\* AnimationWorker.run after create_sierpinski_animation returned: phase
\* "Done" and finished_signal.  error_signal is emitted only from the except
\* branch, and the function catches both save exceptions itself.
WorkerFinished ==
    /\ pc = "returned"
    /\ phase' = "Done"
    /\ finished_signal' = TRUE
    /\ pc' = "done"
    /\ UNCHANGED <<size, max_order, frames_per_order, as_mp4, carpets, frame,
                   produced, random_mask, carpet_frame, reverted,
                   save_error, saved, report, error_signal>>

Next ==
    \/ GenerateCarpet
    \/ StartSave
    \/ Animate
    \/ SaveMp4Ok
    \/ SaveMp4Fail
    \/ SaveGifOk
    \/ SaveGifFail
    \/ Finish
    \/ WorkerFinished

Spec == Init /\ [][Next]_vars

(***************************************************************************)
(* Properties                                                              *)
(***************************************************************************)

RECURSIVE Pow3(_)
Pow3(k) == IF k = 0 THEN 1 ELSE 3 * Pow3(k - 1)

\* The orders whose carpet is in the series so far.
Orders == 0 .. Len(carpets) - 1

Empties(carpet) == {c \in DOMAIN carpet : carpet[c] = 0}

\* animate has produced a frame in the running (or finished) save; its index:
HasFrame == frame > 0
LastFrame == frame - 1

\* C1: a cell (i, j) of the carpet of order o is empty (0) iff some k in
\* 1..o has (i div 3^(k-1)) mod 3 = 1 and (j div 3^(k-1)) mod 3 = 1, and is
\* filled (1) otherwise; the carpet of order 0 has no empty cell.
C1_EmptyIffCentreDigit ==
    \A o \in Orders :
        /\ DOMAIN Carpet(o) = Cells(size)
        /\ \A c \in Cells(size) :
            /\ Carpet(o)[c] \in {0, 1}
            /\ (Carpet(o)[c] = 0) <=>
                 \E k \in 1 .. o :
                    /\ (c[1] \div Pow3(k - 1)) % 3 = 1
                    /\ (c[2] \div Pow3(k - 1)) % 3 = 1
        /\ (o = 0 => Empties(Carpet(o)) = {})

C1_Witness ==
    /\ size = 10
    /\ Len(carpets) = 4
    /\ Carpet(3)[<<1, 1>>] = 0
    /\ Carpet(3)[<<3, 5>>] = 0
    /\ Carpet(3)[<<9, 9>>] = 0
    /\ Carpet(2)[<<9, 9>>] = 1
    /\ Carpet(3)[<<1, 3>>] = 1

\* C2: for size 9 the carpet of order 1 has exactly the centre block, rows
\* 3..5 and columns 3..5, empty, and the other 72 cells filled.
C2_Size9Order1 ==
    (size = 9 /\ 1 \in Orders) =>
        /\ Empties(Carpet(1)) = (3 .. 5) \X (3 .. 5)
        /\ Cardinality({c \in Cells(9) : Carpet(1)[c] = 1}) = 72

C2_Witness ==
    /\ size = 9
    /\ 1 \in Orders
    /\ Carpet(1)[<<4, 4>>] = 0
    /\ Carpet(1)[<<2, 4>>] = 1

\* C3: monotonic nesting: a cell empty in the carpet of order k is empty in
\* the carpet of order k + 1, hence in the carpet of every higher order of
\* the series.
C3_MonotonicNesting ==
    /\ \A k \in 0 .. MaxCarpetOrder :
        Empties(create_sierpinski_carpet(k, size))
            \subseteq Empties(create_sierpinski_carpet(k + 1, size))
    /\ \A o1, o2 \in Orders :
        o1 <= o2 => Empties(Carpet(o1)) \subseteq Empties(Carpet(o2))

C3_Witness ==
    /\ size = 9
    /\ Len(carpets) = 3
    /\ Empties(Carpet(0)) = {}
    /\ Empties(Carpet(1)) # {}
    /\ Empties(Carpet(1)) \subseteq Empties(Carpet(2))
    /\ Empties(Carpet(2)) # Empties(Carpet(1))

\* C4: a save calls animate with exactly the indices 0, 1, ...,
\* (max_order + 1) * frames_per_order - 1, in increasing order, and then no
\* more: a written file holds exactly (max_order + 1) * frames_per_order
\* frames.
C4_FrameCount ==
    /\ produced = [k \in 1 .. frame |-> k - 1]
    /\ frame <= (max_order + 1) * frames_per_order
    /\ saved # "none" => Len(produced) = (max_order + 1) * frames_per_order
    /\ Len(produced) = (max_order + 1) * frames_per_order => ~ ENABLED Animate
    /\ (pc \in {"save_mp4", "save_gif"}
          /\ Len(produced) < (max_order + 1) * frames_per_order)
        => ENABLED Animate

C4_Witness ==
    /\ saved # "none"
    /\ max_order = 2
    /\ frames_per_order = 3
    /\ produced = <<0, 1, 2, 3, 4, 5, 6, 7, 8>>

\* C5: terminal hold: each of the frames max_order * frames_per_order ..
\* (max_order + 1) * frames_per_order - 1 equals carpets[max_order], the
\* carpet of order max_order, with no mask drawn, so they are all identical.
C5_TerminalHold ==
    (HasFrame /\ LastFrame >= max_order * frames_per_order) =>
        /\ carpet_frame = create_sierpinski_carpet(max_order, size)
        /\ carpet_frame = Carpet(max_order)
        /\ random_mask = {}
        /\ ~ reverted

C5_Witness ==
    /\ size = 4
    /\ max_order = 2
    /\ frames_per_order = 3
    /\ frame = 9
    /\ Empties(carpet_frame) = {<<1, 1>>, <<3, 3>>}

\* C6: a frame whose index f has f mod frames_per_order = 0 equals
\* carpets[min(f div frames_per_order, max_order)] and no mask is applied;
\* frame 0 is the all-filled grid, the carpet of order 0.
C6_BlendZeroFrame ==
    (HasFrame /\ LastFrame % frames_per_order = 0) =>
        /\ carpet_frame = Carpet(Min(LastFrame \div frames_per_order, max_order))
        /\ random_mask = {}
        /\ LastFrame = 0 =>
            /\ carpet_frame = create_sierpinski_carpet(0, size)
            /\ carpet_frame = [c \in Cells(size) |-> 1]

C6_Witness ==
    /\ size = 4
    /\ max_order = 2
    /\ frames_per_order = 3
    /\ frame = 4
    /\ carpet_frame = Carpet(1)
    /\ Empties(carpet_frame) = {<<1, 1>>}

\* The changing cells as the claim C7 defines them: filled in
\* carpets[current_order] and empty in carpets[next_order].
ChangingCells(f) ==
    {c \in Cells(size) : /\ Carpet(CurrentOrder(f))[c] = 1
                         /\ Carpet(NextOrder(f))[c] = 0}

\* C7: for a frame with current_order < max_order and any mask, the frame
\* equals carpets[current_order] outside the changing cells; a changing cell
\* is empty iff the mask is true there (no mask drawn: nowhere) and filled
\* otherwise; no cell empty in carpets[current_order] is filled and no cell
\* filled in carpets[next_order] is empty; the series is left unmodified.
C7_FrameEffect ==
    /\ \A o \in Orders : Carpet(o) = create_sierpinski_carpet(o, size)
    /\ (HasFrame /\ CurrentOrder(LastFrame) < max_order) =>
        /\ DOMAIN carpet_frame = Cells(size)
        /\ \A c \in Cells(size) \ ChangingCells(LastFrame) :
            carpet_frame[c] = Carpet(CurrentOrder(LastFrame))[c]
        /\ \A c \in ChangingCells(LastFrame) :
            /\ (carpet_frame[c] = 0) <=> (c \in random_mask)
            /\ (carpet_frame[c] = 1) <=> (c \notin random_mask)
        /\ \A c \in Cells(size) :
            /\ Carpet(CurrentOrder(LastFrame))[c] = 0 => carpet_frame[c] = 0
            /\ Carpet(NextOrder(LastFrame))[c] = 1 => carpet_frame[c] = 1

\* A frame of the window 1 -> 2 of a 4 x 4 grid where the changing cell is
\* dissolved and the mask is also true on cells that do not change.
C7_Witness ==
    /\ size = 4
    /\ max_order = 2
    /\ HasFrame
    /\ CurrentOrder(LastFrame) = 1
    /\ ChangingCells(LastFrame) = {<<3, 3>>}
    /\ <<3, 3>> \in random_mask
    /\ carpet_frame[<<3, 3>>] = 0
    /\ <<0, 0>> \in random_mask
    /\ carpet_frame[<<0, 0>>] = 1
    /\ <<1, 1>> \in random_mask
    /\ carpet_frame[<<1, 1>>] = 0

\* C8: the dissolve is not cumulative: whenever frame f of a window
\* (current_order < max_order, blend_factor > 0) has a changing cell empty
\* and frame f + 1 is in the same window, frame f + 1 can come out with that
\* cell filled again.
C8_RevertPossible ==
    ( /\ pc \in {"save_mp4", "save_gif"}
      /\ HasFrame
      /\ frame < TotalFrames
      /\ CurrentOrder(LastFrame) < max_order
      /\ CurrentOrder(frame) = CurrentOrder(LastFrame)
      /\ BlendNum(LastFrame) > 0 )
    => \A c \in ChangingCells(LastFrame) :
            carpet_frame[c] = 0 => ENABLED (Animate /\ carpet_frame'[c] = 1)

\* Two consecutive frames of one window, the earlier with blend_factor > 0,
\* where a changing cell is empty in the earlier and filled in the later.
C8_Witness ==
    /\ frame >= 2
    /\ CurrentOrder(LastFrame) < max_order
    /\ CurrentOrder(LastFrame - 1) = CurrentOrder(LastFrame)
    /\ BlendNum(LastFrame - 1) > 0
    /\ reverted
    /\ \E c \in ChangingCells(LastFrame) : carpet_frame[c] = 1

\* C9: a save that wrote no file is surfaced as a failure (error_signal and
\* no finished_signal, no final "Done" phase), and a save that wrote its
\* file is not reported as a failure.
C9_SaveFailureSurfaced ==
    pc = "done" =>
        /\ saved = "none" =>
            /\ error_signal
            /\ ~ finished_signal
            /\ phase # "Done"
        /\ saved # "none" =>
            /\ ~ error_signal
            /\ finished_signal
            /\ report # "failed"

\* C10: resolution saturation: when 3^k >= size the carpet of order k + 1
\* equals the carpet of order k; in a window with such a current_order
\* < max_order no cell changes and every frame equals carpets[current_order]
\* whatever the mask.
C10_Saturation ==
    /\ \A k \in Orders :
        (Pow3(k) >= size) =>
            /\ create_sierpinski_carpet(k + 1, size)
                 = create_sierpinski_carpet(k, size)
            /\ (k + 1 \in Orders => Carpet(k + 1) = Carpet(k))
    /\ ( /\ HasFrame
         /\ CurrentOrder(LastFrame) < max_order
         /\ Pow3(CurrentOrder(LastFrame)) >= size )
        => /\ ChangingPixels(LastFrame) = {}
           /\ carpet_frame = Carpet(CurrentOrder(LastFrame))

\* A frame of the saturated window 1 -> 2 of a 3 x 3 grid whose mask is true
\* everywhere.
C10_Witness ==
    /\ size = 3
    /\ max_order = 2
    /\ HasFrame
    /\ CurrentOrder(LastFrame) = 1
    /\ BlendNum(LastFrame) > 0
    /\ random_mask = Cells(size)
    /\ carpet_frame = Carpet(1)
    /\ Empties(carpet_frame) = {<<1, 1>>}

====
